---- MODULE Spec2Model ----
(***************************************************************************)
(* Co-speech gesture analysis scripts: the upload / analyse / validate /   *)
(* retry / report loop of create_analysis_document, in the script variants *)
(*   A25  gemini2.5_analysis_doc.py   (retries, two validation checks)     *)
(*   N25  gemini2.5_nocontext.py      (retries, three validation checks)   *)
(*   C20  gemini2.0_context.py        (request ceiling, no retries)        *)
(*   D20  gemini2.0_context_doc.py    (no ceiling, no retries)             *)
(* A text is a sequence of one-character strings.                          *)
(***************************************************************************)
EXTENDS Integers, Sequences, FiniteSets, TLC

\* ------------------------------------------------------------------ bounds

\* Longest queue of videos handed to create_analysis_document.
MaxVideos == 3

\* The request ceiling. The scripts set 450 (A25), 230 (N25) and 175 (C20);
\* the model runs the same comparisons against a small ceiling.
MAX_REQUESTS == 2

\* Longest answer handed to the splitter, in tokens.
MaxTokens == 4

\* Minimum number of whitespace-separated words of a usable answer.
MinWords == 50

\* ------------------------------------------------------------------- texts

Digits == {"0", "1", "2", "3", "4", "5", "6", "7", "8", "9"}

Whitespace == {" ", "\n", "\t"}

\* str.lower() on the letters the answers use.
Lower(c) ==
    CASE c = "B" -> "b"
      [] c = "D" -> "d"
      [] c = "I" -> "i"
      [] c = "M" -> "m"
      [] OTHER -> c

LowerText(t) == [k \in 1..Len(t) |-> Lower(t[k])]

\* w in t (substring test).
Contains(t, w) ==
    \E k \in 0..(Len(t) - Len(w)) : \A j \in 1..Len(w) : t[k + j] = w[j]

\* re.search(r'\d{2}:\d{2}\.\d{3}', t)
HasTimestamps(t) ==
    \E k \in 0..(Len(t) - 9) :
        /\ t[k + 1] \in Digits
        /\ t[k + 2] \in Digits
        /\ t[k + 3] = ":"
        /\ t[k + 4] \in Digits
        /\ t[k + 5] \in Digits
        /\ t[k + 6] = "."
        /\ t[k + 7] \in Digits
        /\ t[k + 8] \in Digits
        /\ t[k + 9] \in Digits

\* len(t.split()): the number of maximal runs of non-whitespace characters.
WordCount(t) ==
    Cardinality({k \in 1..Len(t) :
        /\ t[k] \notin Whitespace
        /\ (k = 1 \/ t[k - 1] \in Whitespace)})

HasSufficientLength(t) == WordCount(t) >= MinWords

GestureTokens ==
    { <<"b", "e", "a", "t">>,
      <<"m", "e", "t", "a", "p", "h", "o", "r", "i", "c">>,
      <<"i", "c", "o", "n", "i", "c">>,
      <<"d", "e", "i", "c", "t", "i", "c">> }

\* any(token.lower() in t.lower() for token in [...])
HasGestureTypes(t) == \E tok \in GestureTokens : Contains(LowerText(t), LowerText(tok))

\* ---------------------------------------------------------------- answers

RECURSIVE Words(_)
\* n one-letter words, each followed by a blank.
Words(n) == IF n = 0 THEN << >> ELSE <<"w", " ">> \o Words(n - 1)

Stamp == <<"0", "0", ":", "0", "5", ".", "1", "2", "0">>

\* The texts the analysis service answers with (response.text).
\*  1  48 plain words, "Iconic", a timestamp: 50 words
\*  2  49 plain words and a timestamp: 50 words, no category keyword
\*  3  47 plain words, "beat", a timestamp: 49 words
\*  4  48 plain words, "deictic", "00:05.12": 50 words, a malformed timestamp
\*  5  blanks only
\*  6  the empty text
Answers ==
    << Words(48) \o <<"I", "c", "o", "n", "i", "c", " ">> \o Stamp,
       Words(49) \o Stamp,
       Words(47) \o <<"b", "e", "a", "t", " ">> \o Stamp,
       Words(48) \o <<"d", "e", "i", "c", "t", "i", "c", " ">> \o SubSeq(Stamp, 1, 8),
       <<" ", "\n">>,
       << >> >>

AnswerIds == 1..Len(Answers)

\* What one upload-and-generate attempt can come to: upload_file raises,
\* generate_content raises, the response carries no text, or it carries a text.
AllOutcomes ==
    {[kind |-> k, ans |-> 0] : k \in {"upload_error", "generate_error", "no_text"}}
        \cup {[kind |-> "text", ans |-> a] : a \in AnswerIds}

\* A run over a single video is answered with every outcome; a run over a
\* longer queue with both service errors and the texts 1, 2 and 5.
Outcomes(queue) ==
    IF Len(queue) = 1 THEN AllOutcomes
    ELSE {o \in AllOutcomes :
            o.kind \in {"upload_error", "generate_error"} \/ o.ans \in {1, 2, 5}}

\* --------------------------------------------------------------- validator

\* The initial pass logs the answer as an error when a check fails and stores
\* it otherwise: A25 "if not re.search(...) or len(...split()) < 50", N25
\* "if not has_timestamps or not has_sufficient_length or not has_gesture_types".
ValidInitial(v, t) ==
    IF v = "N25"
    THEN ~(~HasTimestamps(t) \/ ~HasSufficientLength(t) \/ ~HasGestureTypes(t))
    ELSE ~(~HasTimestamps(t) \/ WordCount(t) < MinWords)

\* ValidRetry asking for more than MinWords words.
ValidRetry_Strict(v, t) ==
    IF v = "N25"
    THEN HasTimestamps(t) /\ WordCount(t) > MinWords /\ HasGestureTypes(t)
    ELSE HasTimestamps(t) /\ WordCount(t) > MinWords

\* The retry round stores the answer if this holds.
ValidRetry(v, t) ==
    IF v = "N25"
    THEN HasTimestamps(t) /\ HasSufficientLength(t) /\ HasGestureTypes(t)
    ELSE HasTimestamps(t) /\ WordCount(t) >= MinWords

\* "if retry_response:" a text that is not empty.
Truthy(t) == Len(t) > 0

\* The verdicts on the service's texts, per variant and answer.
InitialVerdict == [v \in {"A25", "N25"}, a \in AnswerIds |-> ValidInitial(v, Answers[a])]

RetryVerdict ==
    [v \in {"A25", "N25"}, a \in AnswerIds |->
        Truthy(Answers[a]) /\ ValidRetry(v, Answers[a])]

\* --------------------------------------------------------------- splitter

\* The markers the splitter looks for.
MarkOneParen == <<"1", ")">>
MarkTwoParen == <<"2", ")">>
MarkOneDot == <<"1", ".">>
MarkTwoDot == <<"2", ".">>
MarkAction == <<"A", "c", "t", "i", "o", "n", ":">>
MarkCategory == <<"C", "a", "t", "e", "g", "o", "r", "y", ":">>
MarkTheGesture == <<"T", "h", "e", " ", "g", "e", "s", "t", "u", "r", "e">>

\* "Category not clearly specified in response"
NotSpecified == <<"Category not clearly specified in response">>

\* t.find(w) + 1: the first position at which w occurs in t, 0 if none.
Find(t, w) ==
    IF Contains(t, w)
    THEN CHOOSE k \in 1..(Len(t) - Len(w) + 1) :
            /\ SubSeq(t, k, k + Len(w) - 1) = w
            /\ \A j \in 1..(k - 1) : SubSeq(t, j, j + Len(w) - 1) # w
    ELSE 0

\* t.split(sep): the pieces between the occurrences of sep, left to right.
RECURSIVE split(_, _)
split(t, sep) ==
    LET k == Find(t, sep) IN
    IF k = 0 THEN <<t>>
    ELSE <<SubSeq(t, 1, k - 1)>> \o split(SubSeq(t, k + Len(sep), Len(t)), sep)

\* t.replace(old, ""): every occurrence of old, left to right, is removed.
RECURSIVE replace(_, _)
replace(t, old) ==
    LET k == Find(t, old) IN
    IF k = 0 THEN t
    ELSE SubSeq(t, 1, k - 1) \o replace(SubSeq(t, k + Len(old), Len(t)), old)

\* t.strip()
strip(t) ==
    LET inked == {k \in 1..Len(t) : t[k] \notin Whitespace} IN
    IF inked = {} THEN << >>
    ELSE SubSeq(t, CHOOSE k \in inked : \A j \in inked : k <= j,
                   CHOOSE k \in inked : \A j \in inked : j <= k)

\* t.startswith(w)
startswith(t, w) == Len(w) <= Len(t) /\ SubSeq(t, 1, Len(w)) = w

\* [line.strip() for line in t.split('\n') if line.strip()]
StrippedLines(t) ==
    LET raw == split(t, <<"\n">>)
        NonBlank(l) == strip(l) # << >>
        kept == SelectSeq(raw, NonBlank)
    IN [k \in 1..Len(kept) |-> strip(kept[k])]

\* Which branch of the if / elif / else chain takes the answer:
\* 1 split on "2)", 2 split on "2.", 3 split on "Category:", 4 the first two
\* lines, 0 the whole answer.
RuleOf(t) ==
    IF \/ Contains(t, MarkOneParen) /\ Contains(t, MarkTwoParen)
       \/ Contains(t, MarkOneDot) /\ Contains(t, MarkTwoDot)
    THEN IF Contains(t, MarkOneParen) THEN 1 ELSE 2
    ELSE IF Contains(t, MarkAction) /\ Contains(t, MarkCategory) THEN 3
    ELSE LET lines == StrippedLines(t) IN
         IF /\ Len(lines) >= 2
            /\ \E w \in {MarkTwoDot, MarkTwoParen, MarkCategory, MarkTheGesture} :
                  startswith(lines[2], w)
         THEN 4 ELSE 0

\* The delimiter a splitting rule splits on, and the marker it removes.
Delimiter(r) ==
    CASE r = 1 -> MarkTwoParen [] r = 2 -> MarkTwoDot [] OTHER -> MarkCategory

Leader(r) ==
    CASE r = 1 -> MarkOneParen [] r = 2 -> MarkOneDot [] OTHER -> MarkAction

\* parts[0].replace(leader, "").strip()
ActionOf(part, leader) == strip(replace(part, leader))

\* CategoryOf without the delimiter put back.
CategoryOf_Bare(sep, part) == strip(part)

\* delimiter + parts[1].strip()
CategoryOf(sep, part) == sep \o strip(part)

\* action.replace("1)", "").replace("1.", "").strip()
CleanUp(a) == strip(replace(replace(a, MarkOneParen), MarkOneDot))

\* The try block that splits an answer: raised when parts[1] does not exist
\* (IndexError, caught by "except Exception" which writes the raw answer).
SplitResponse(t) ==
    LET r == RuleOf(t)
        parts == split(t, Delimiter(r))
        lines == StrippedLines(t)
    IN
    CASE r \in {1, 2, 3} ->
            IF Len(parts) < 2
            THEN [raised |-> TRUE, rule |-> r, action |-> << >>, category |-> << >>]
            ELSE [raised |-> FALSE, rule |-> r,
                  action |-> ActionOf(parts[1], Leader(r)),
                  category |-> CategoryOf(Delimiter(r), parts[2])]
      [] r = 4 ->
            [raised |-> FALSE, rule |-> r, action |-> lines[1], category |-> lines[2]]
      [] OTHER ->
            [raised |-> FALSE, rule |-> r, action |-> t, category |-> NotSpecified]

\* ------------------------------------------------------------------- state

Variants == {"A25", "N25", "C20", "D20"}

\* The variants with a request ceiling, with a validator and retry rounds,
\* and with the save prompt in an outer finally.
HasCeiling(v) == v \in {"A25", "N25", "C20"}
HasRetry(v) == v \in {"A25", "N25"}
HasSavePrompt(v) == v \in {"N25", "C20", "D20"}

VARIABLES
    variant,            \* which script runs
    api_key,            \* GEMINI_API_KEY is set
    video_paths,        \* the queue: per path its base name and whether the file exists
    auto_retry,         \* the operator's answer to "automate retries?"
    pc,                 \* where create_analysis_document stands
    raised,             \* the exception leaving create_analysis_document, or "none"
    idx,                \* position of the initial pass in video_paths
    request_count,
    processing_time,    \* "unbound" until the first assignment, then "bound"
    doc,                \* [created, body]: the report object and what was added to it
    processing_times,   \* base names, in the order they were appended
    video_responses,    \* base name -> stored answer
    video_retry_counts, \* base name -> retry number of the stored answer
    error_log,          \* base name -> failed attempts
    error_log_keys,     \* the keys of error_log in insertion order
    error_files,
    retry_count,
    ridx,               \* position of the retry round in error_files
    report,             \* the closing sections written at the end of the run
    prompts,            \* how often the operator was asked about saving
    saved,              \* report files written
    uploads,            \* per queue position: upload_file calls issued
    generates,          \* per queue position: generate_content calls issued
    deletes,            \* per queue position: delete_file calls issued
    usable,             \* per queue position: the usable answers its attempts obtained
    attempt,            \* the last upload-and-generate attempt issued
    approved,           \* the operator approved the current retry round
    declined            \* the operator declined a retry round

\* The answer under the splitter of the scripts that write an action and a
\* category section (gemini2.0_context.py and its siblings).
VARIABLES
    response_text,      \* response.text
    parsed,             \* "idle", "text", "split", "written" or "raw" (the except branch)
    rule,               \* the branch that took the answer
    action,
    category

split_vars == << response_text, parsed, rule, action, category >>

\* The uploaded file of the iteration under way, for the model that takes the
\* upload, the generate call and the delete as steps of their own.
VARIABLES
    uploaded_file_resource, \* None, or the handle <<queue position, upload number>>
    live                    \* the handles uploaded and not yet handed to delete_file

step_vars == << uploaded_file_resource, live >>

\* Text on its way into the report: what the duration probe of the iteration
\* under way left for the heading, and the paragraph format_text_with_bold fills.
VARIABLES
    duration_text,      \* "unset" until the first probe, then the text for the heading
    paragraph           \* [text, runs, formatted]: the text handed over and the runs added

display_vars == << duration_text, paragraph >>

\* The operator's answer to "Do you want to save the analysis document?".
VARIABLES
    save_doc            \* "unasked", "yes" or "no"

prompt_vars == << save_doc >>

\* The context PDF of gemini2.0_context.py and gemini2.0_context_doc.py.
VARIABLES
    context_resource    \* None, or the handle upload_file returned for the PDF

context_vars == << context_resource >>

None == << >>

run_vars ==
    << variant, api_key, video_paths, auto_retry, pc, raised, idx, request_count,
       processing_time, doc, processing_times, video_responses, video_retry_counts,
       error_log, error_log_keys, error_files, retry_count, ridx, report, prompts,
       saved, uploads, generates, deletes, usable, attempt, approved,
                    declined >>

vars == << run_vars, split_vars, step_vars, display_vars, prompt_vars, context_vars >>

\* Base names are numbered in the order the queue first uses them.
Names == 1..MaxVideos

Clips == [base : Names, exists : BOOLEAN]

Queues ==
    {q \in UNION {[1..n -> Clips] : n \in 1..MaxVideos} :
        \A k \in 1..Len(q) :
            q[k].base <= 1 + Cardinality({q[j].base : j \in 1..(k - 1)})}

\* d[k] = v
Put(d, k, v) == [x \in (DOMAIN d) \cup {k} |-> IF x = k THEN v ELSE d[x]]

\* keys gain k at the end if it is new: a dict keeps insertion order.
PutKey(keys, k) ==
    IF \E j \in 1..Len(keys) : keys[j] = k THEN keys ELSE Append(keys, k)

Bump(f, k) == [f EXCEPT ![k] = @ + 1]

NoReport ==
    [written |-> FALSE, requests |-> 0, successes |-> << >>, errors |-> << >>,
     rows |-> << >>]

Init ==
    /\ variant \in Variants
    /\ api_key \in BOOLEAN
    /\ video_paths \in Queues
    /\ auto_retry \in BOOLEAN
    /\ (auto_retry => HasRetry(variant))
    /\ pc = "start"
    /\ raised = "none"
    /\ idx = 1
    /\ request_count = 0
    /\ processing_time = "unbound"
    /\ doc = [created |-> FALSE, body |-> << >>]
    /\ processing_times = << >>
    /\ video_responses = << >>
    /\ video_retry_counts = << >>
    /\ error_log = << >>
    /\ error_log_keys = << >>
    /\ error_files = << >>
    /\ retry_count = 0
    /\ ridx = 1
    /\ report = NoReport
    /\ prompts = 0
    /\ saved = 0
    /\ uploads = [k \in 1..Len(video_paths) |-> 0]
    /\ generates = [k \in 1..Len(video_paths) |-> 0]
    /\ deletes = [k \in 1..Len(video_paths) |-> 0]
    /\ usable = [k \in 1..Len(video_paths) |-> << >>]
    /\ attempt = [serial |-> 0, pos |-> 0, retry |-> 0, kind |-> "none", ans |-> 0]
    /\ approved = FALSE
    /\ declined = FALSE
    /\ response_text = << >>
    /\ parsed = "idle"
    /\ rule = 0
    /\ action = << >>
    /\ category = << >>
    /\ uploaded_file_resource = None
    /\ live = {}
    /\ duration_text = "unset"
    /\ paragraph = [text |-> << >>, runs |-> << >>, formatted |-> FALSE]
    /\ save_doc = "unasked"
    /\ context_resource = None

\* ----------------------------------------------------------------- actions

\* One line of error_log, or one block added to doc.
Entry(kind, n, a) == [kind |-> kind, n |-> n, ans |-> a]

Block(sec, fn, n, a) == [sec |-> sec, base |-> fn, n |-> n, ans |-> a]

\* HasCredential taking any value for a key.
HasCredential_Always(key) == TRUE

\* "if not GEMINI_API_KEY: ... return" reads the key's truth value.
HasCredential(key) == key

\* The credential check, then the client, the output directory and the report
\* object. The retry preference was asked before (auto_retry).
Start ==
    /\ pc = "start"
    /\ IF HasCredential(api_key)
       THEN /\ doc' = [created |-> TRUE, body |-> << >>]
            /\ pc' = "initial"
       ELSE /\ pc' = "done"
            /\ UNCHANGED doc
    /\ UNCHANGED << variant, api_key, video_paths, auto_retry, raised, idx,
                    request_count, processing_time, processing_times,
                    video_responses, video_retry_counts, error_log, error_log_keys,
                    error_files, retry_count, ridx, report, prompts, saved, uploads,
                    generates, deletes, usable, attempt, approved,
                    declined >>

\* AtCeiling letting one request too many through.
AtCeiling_OffByOne(rc) == rc > MAX_REQUESTS

\* "if request_count >= MAX_REQUESTS: break" at the top of both for loops; the
\* while loop of the retry rounds runs on its negation.
AtCeiling(rc) == rc >= MAX_REQUESTS

\* The attempt record of the next attempt.
NextAttempt(k, n, o) ==
    [serial |-> attempt.serial + 1, pos |-> k, retry |-> n, kind |-> o.kind, ans |-> o.ans]

\* One iteration of "for video_path in video_paths", the service coming to o.
\* The loop's own exit (the queue is used up, or the ceiling check at the top
\* of the next iteration breaks) is taken with the iteration that causes it.
ProcessVideo(o) ==
    LET clip == video_paths[idx]
        fn == clip.base
        uploaded == clip.exists /\ o.kind # "upload_error"
        answered == clip.exists /\ o.kind \in {"no_text", "text"}
        valid == /\ HasRetry(variant)
                 /\ answered
                 /\ o.kind = "text"
                 /\ InitialVerdict[variant, o.ans]
        \* "processing_times.append((video_filename, processing_time))" in the
        \* finally clause reads a name that only the line after generate_content
        \* assigns (A25, N25); C20 sets it to 0 first, D20 assigns it in place.
        unbound == /\ HasRetry(variant)
                   /\ clip.exists
                   /\ ~answered
                   /\ processing_time = "unbound"
        rc == IF answered /\ HasCeiling(variant) THEN request_count + 1 ELSE request_count
        last == idx = Len(video_paths) \/ (HasCeiling(variant) /\ AtCeiling(rc))
        failure ==
            IF ~clip.exists THEN Entry("file_not_found", 0, 0)
            ELSE IF ~answered THEN Entry("error", 0, 0)
            ELSE IF o.kind = "no_text" THEN Entry("no_response", 0, 0)
            ELSE Entry("initial", 0, o.ans)
        block ==
            IF ~answered THEN Block("error", fn, 0, 0)
            ELSE IF o.kind = "no_text" THEN Block("no_analysis", fn, 0, 0)
            ELSE Block("analysis", fn, 0, o.ans)
    IN
    /\ pc = "initial"
    /\ ~HasCeiling(variant) \/ ~AtCeiling(request_count)
    /\ request_count' = rc
    /\ attempt' = IF clip.exists THEN NextAttempt(idx, 0, o) ELSE attempt
    /\ uploads' = IF clip.exists THEN Bump(uploads, idx) ELSE uploads
    /\ generates' = IF uploaded THEN Bump(generates, idx) ELSE generates
    /\ deletes' = IF uploaded THEN Bump(deletes, idx) ELSE deletes
    /\ processing_time' = IF answered THEN "bound" ELSE processing_time
    /\ IF HasRetry(variant)
       THEN /\ IF valid
               THEN /\ video_responses' = Put(video_responses, fn, o.ans)
                    /\ video_retry_counts' = Put(video_retry_counts, fn, 0)
                    /\ usable' = [usable EXCEPT ![idx] = Append(@, o.ans)]
                    /\ UNCHANGED << error_log, error_log_keys >>
               ELSE /\ error_log' = Put(error_log, fn, <<failure>>)
                    /\ error_log_keys' = PutKey(error_log_keys, fn)
                    /\ UNCHANGED << video_responses, video_retry_counts, usable >>
            /\ UNCHANGED doc
       ELSE /\ doc' = IF clip.exists
                      THEN [doc EXCEPT !.body = Append(@, block)]
                      ELSE doc
            /\ UNCHANGED << video_responses, video_retry_counts, usable, error_log,
                            error_log_keys >>
    /\ processing_times' =
           IF clip.exists /\ ~unbound THEN Append(processing_times, fn)
           ELSE processing_times
    /\ IF unbound
       THEN /\ raised' = "UnboundLocalError"
            /\ pc' = IF HasSavePrompt(variant) THEN "save" ELSE "done"
            /\ prompts' = IF HasSavePrompt(variant) THEN prompts + 1 ELSE prompts
            /\ UNCHANGED << idx, error_files >>
       ELSE /\ UNCHANGED << raised, prompts >>
            /\ IF last
               THEN /\ pc' = IF HasRetry(variant) THEN "retry_head" ELSE "finalize"
                    /\ error_files' = IF HasRetry(variant) THEN error_log_keys'
                                      ELSE error_files
                    /\ UNCHANGED idx
               ELSE /\ pc' = "initial"
                    /\ idx' = idx + 1
                    /\ UNCHANGED error_files
    /\ UNCHANGED << variant, api_key, video_paths, auto_retry, retry_count, ridx,
                    report, saved, approved, declined >>

\* The first queue position whose base name is fn:
\* next((path for path in video_paths if os.path.basename(path) == error_file), None)
PathOf(fn) ==
    CHOOSE k \in 1..Len(video_paths) :
        /\ video_paths[k].base = fn
        /\ \A j \in 1..(k - 1) : video_paths[j].base # fn

\* retry_count is only ever read as retry_count + 1 by a round that issues a
\* request, and such a round comes after fewer than MAX_REQUESTS others: past
\* the ceiling the counter is not told apart.
NextRetryCount(n) == IF n <= MAX_REQUESTS THEN n + 1 ELSE n

\* RetryNumber counting the rounds from 0.
RetryNumber_ZeroBased(n) == n

\* "retry_count + 1": the number a retry round gives its attempts.
RetryNumber(n) == n + 1

\* RoundGoesAhead ignoring the operator's no.
RoundGoesAhead_Always(auto, answer) == TRUE

\* Whether a retry round goes ahead: automatic mode, or the operator's yes.
RoundGoesAhead(auto, answer) == auto \/ answer

\* The head of "while error_files and request_count < MAX_REQUESTS", with the
\* operator's answer to "retry analysis for these files?" in manual mode.
RetryHead(answer) ==
    LET loops == error_files # << >> /\ ~AtCeiling(request_count)
        ahead == RoundGoesAhead(auto_retry, answer)
    IN
    /\ pc = "retry_head"
    /\ pc' = IF loops /\ ahead THEN "retry_body" ELSE "finalize"
    /\ approved' = (loops /\ ~auto_retry /\ answer)
    /\ declined' = (declined \/ (loops /\ ~auto_retry /\ ~answer))
    /\ ridx' = 1
    /\ UNCHANGED << variant, api_key, video_paths, auto_retry, raised, idx,
                    request_count, processing_time, doc, processing_times,
                    video_responses, video_retry_counts, error_log, error_log_keys,
                    error_files, retry_count, report, prompts, saved, uploads,
                    generates, deletes, usable, attempt >>

\* One iteration of "for error_file in error_files" with retry_failed_analysis
\* coming to o. The end of the round (the list is used up, or the ceiling check
\* at the top of the next iteration breaks) is taken with the iteration that
\* causes it: error_files is filtered and retry_count incremented.
RetryVideo(o) ==
    LET ef == error_files[ridx]
        k == PathOf(ef)
        present == video_paths[k].exists
        uploaded == present /\ o.kind # "upload_error"
        got_text == present /\ o.kind = "text"
        truthy == got_text /\ Truthy(Answers[o.ans])
        valid == got_text /\ RetryVerdict[variant, o.ans]
        n == RetryNumber(retry_count)
        rc == IF present THEN request_count + 1 ELSE request_count
        responses == IF valid THEN Put(video_responses, ef, o.ans) ELSE video_responses
        last == ridx = Len(error_files) \/ AtCeiling(rc)
        Pending(f) == f \notin DOMAIN responses
    IN
    /\ pc = "retry_body"
    /\ ~AtCeiling(request_count)
    /\ request_count' = rc
    /\ attempt' = IF present THEN NextAttempt(k, n, o) ELSE attempt
    /\ uploads' = IF present THEN Bump(uploads, k) ELSE uploads
    /\ generates' = IF uploaded THEN Bump(generates, k) ELSE generates
    /\ deletes' = IF uploaded THEN Bump(deletes, k) ELSE deletes
    /\ doc' = IF got_text
              THEN [doc EXCEPT !.body = Append(@, Block("retry", ef, n, o.ans))]
              ELSE doc
    /\ video_responses' = responses
    /\ video_retry_counts' =
           IF valid THEN Put(video_retry_counts, ef, n) ELSE video_retry_counts
    /\ usable' = IF valid THEN [usable EXCEPT ![k] = Append(@, o.ans)] ELSE usable
    /\ error_log' =
           IF present /\ ~valid
           THEN [error_log EXCEPT ![ef] =
                    Append(@, IF truthy THEN Entry("retry", n, o.ans)
                              ELSE Entry("retry_no_response", n, 0))]
           ELSE error_log
    /\ IF last
       THEN /\ error_files' = SelectSeq(error_files, Pending)
            /\ retry_count' = NextRetryCount(retry_count)
            /\ ridx' = 1
            /\ approved' = FALSE
            /\ pc' = IF error_files' = << >> THEN "finalize" ELSE "retry_head"
       ELSE /\ ridx' = ridx + 1
            /\ pc' = "retry_body"
            /\ UNCHANGED << error_files, retry_count, approved >>
    /\ UNCHANGED << variant, api_key, video_paths, auto_retry, raised, idx,
                    processing_time, processing_times, error_log_keys, report,
                    prompts, saved, declined >>

\* sorted(S) for a set of base names.
Sorted(S) ==
    [i \in 1..Cardinality(S) |-> CHOOSE x \in S : Cardinality({y \in S : y < x}) = i - 1]

Before(a, b) == a < b

\* video_retry_counts.get(fn, 0)
RetriesOf(fn) == IF fn \in DOMAIN video_retry_counts THEN video_retry_counts[fn] ELSE 0

\* The rows of the processing-times table: A25 and C20 one per entry of
\* processing_times, N25 one per key of successful_processing_times, D20 none.
SummaryRows ==
    LET names == CASE variant = "N25" -> Sorted(DOMAIN video_responses)
                   [] variant = "D20" -> << >>
                   [] OTHER -> SortSeq(processing_times, Before)
    IN [i \in 1..Len(names) |-> [base |-> names[i], retries |-> RetriesOf(names[i])]]

\* NeverSucceeded holding of every file.
NeverSucceeded_Any(fn) == TRUE

\* "if filename not in video_responses:  # Only show files that never succeeded"
NeverSucceeded(fn) == fn \notin DOMAIN video_responses

\* The closing sections: request count, successful analyses, error log (the
\* files that never succeeded), summary table; A25 then saves the file, the
\* other variants reach the save prompt of the finally clause.
Finalize ==
    /\ pc = "finalize"
    /\ report' =
           [written |-> TRUE,
            requests |-> request_count,
            successes |-> video_responses,
            errors |-> [fn \in {f \in DOMAIN error_log : NeverSucceeded(f)} |->
                           error_log[fn]],
            rows |-> SummaryRows]
    /\ IF HasSavePrompt(variant)
       THEN /\ pc' = "save"
            /\ prompts' = prompts + 1
            /\ UNCHANGED saved
       ELSE /\ pc' = "done"
            /\ saved' = saved + 1
            /\ UNCHANGED prompts
    /\ UNCHANGED << variant, api_key, video_paths, auto_retry, raised, idx,
                    request_count, processing_time, doc, processing_times,
                    video_responses, video_retry_counts, error_log, error_log_keys,
                    error_files, retry_count, ridx, uploads, generates, deletes,
                    usable, attempt, approved,
                    declined >>

\* SavesOn taking any answer for a yes.
SavesOn_Any(answer) == TRUE

\* "if save_doc in ['yes', 'y']: ... doc.save(output_path)"
SavesOn(answer) == answer

\* "Do you want to save the analysis document?" in the finally clause.
SavePrompt(answer) ==
    /\ pc = "save"
    /\ save_doc' = IF answer THEN "yes" ELSE "no"
    /\ saved' = IF SavesOn(answer) THEN saved + 1 ELSE saved
    /\ pc' = "done"
    /\ UNCHANGED << variant, api_key, video_paths, auto_retry, raised, idx,
                    request_count, processing_time, doc, processing_times,
                    video_responses, video_retry_counts, error_log, error_log_keys,
                    error_files, retry_count, ridx, report, prompts, uploads,
                    generates, deletes, usable, attempt, approved,
                    declined >>

\* SIGINT between two steps: the handler finds no global named doc (doc is a
\* local of create_analysis_document) and calls sys.exit(0). SystemExit leaves
\* create_analysis_document through the finally clause where there is one,
\* which asks about saving if the report object exists.
signal_handler ==
    /\ pc # "done"
    /\ raised' = "SystemExit"
    /\ IF HasSavePrompt(variant) /\ doc.created /\ pc # "save"
       THEN /\ pc' = "save"
            /\ prompts' = prompts + 1
       ELSE /\ pc' = "done"
            /\ UNCHANGED prompts
    /\ UNCHANGED << variant, api_key, video_paths, auto_retry, idx, request_count,
                    processing_time, doc, processing_times, video_responses,
                    video_retry_counts, error_log, error_log_keys, error_files,
                    retry_count, ridx, report, saved, uploads, generates, deletes,
                    usable, attempt, approved,
                    declined >>

Next ==
    \/ Start /\ UNCHANGED << display_vars, prompt_vars, context_vars, split_vars, step_vars >>
    \/ \E o \in Outcomes(video_paths) : ProcessVideo(o) /\ UNCHANGED << display_vars, prompt_vars, context_vars, split_vars, step_vars >>
    \/ \E answer \in BOOLEAN : RetryHead(answer) /\ UNCHANGED << display_vars, prompt_vars, context_vars, split_vars, step_vars >>
    \/ \E o \in Outcomes(video_paths) : RetryVideo(o) /\ UNCHANGED << display_vars, prompt_vars, context_vars, split_vars, step_vars >>
    \/ Finalize /\ UNCHANGED << display_vars, prompt_vars, context_vars, split_vars, step_vars >>
    \/ \E answer \in BOOLEAN : SavePrompt(answer) /\ UNCHANGED << context_vars, display_vars, split_vars, step_vars >>
    \/ signal_handler /\ UNCHANGED << display_vars, prompt_vars, context_vars, split_vars, step_vars >>

Spec == Init /\ [][Next]_vars

\* The script is one sequential process: it always takes its next step.
FairSpec == Spec /\ WF_vars(Next)

\* ------------------------------------------------------ the duration probe

\* What get_video_duration returns: None for every failure (a return code, a
\* missing key, any exception), or the seconds ffprobe reported, <<30>> for
\* 30.0 and <<90>> for 90.0.
Durations == {None, <<30>>, <<90>>}

\* format_time: gemini2.5_analysis_doc.py compares its argument bare, and a
\* comparison with None raises; the other scripts wrap the body in try / except
\* and return "Unknown duration".
format_time(v, seconds) ==
    IF seconds = None
    THEN IF v = "A25" THEN [raised |-> TRUE, text |-> ""]
         ELSE [raised |-> FALSE, text |-> "Unknown duration"]
    ELSE IF seconds[1] < 60
         THEN [raised |-> FALSE, text |-> "30.0 seconds"]
         ELSE [raised |-> FALSE, text |-> "1 minutes and 30.0 seconds"]

\* DurationText formatting whatever the probe returned.
DurationText_Unguarded(v, d) == format_time(v, d)

\* f" (Duration: {format_time(video_duration)})" if video_duration is not None else ""
DurationText(v, d) ==
    IF d # None THEN format_time(v, d) ELSE [raised |-> FALSE, text |-> ""]

\* An exception of the duration lines leaves create_analysis_document: they
\* stand outside the try of the iteration.
ProbeRaises ==
    /\ raised' = "TypeError"
    /\ pc' = IF HasSavePrompt(variant) THEN "save" ELSE "done"
    /\ prompts' = IF HasSavePrompt(variant) THEN prompts + 1 ELSE prompts
    /\ UNCHANGED << variant, api_key, video_paths, auto_retry, idx, request_count,
                    processing_time, doc, processing_times, video_responses,
                    video_retry_counts, error_log, error_log_keys, error_files,
                    retry_count, ridx, report, saved, uploads, generates, deletes,
                    usable, attempt, approved, declined, display_vars, prompt_vars, context_vars >>

\* One iteration of the initial pass with the probe returning d: the probe runs
\* once the file is known to exist, before the upload.
ProbedProcessVideo(o, d) ==
    LET probe == DurationText(variant, d) IN
    /\ pc = "initial"
    /\ ~HasCeiling(variant) \/ ~AtCeiling(request_count)
    /\ IF video_paths[idx].exists
       THEN IF probe.raised
            THEN ProbeRaises
            ELSE /\ ProcessVideo(o)
                 /\ duration_text' = probe.text
                 /\ UNCHANGED << paragraph, prompt_vars, context_vars >>
       ELSE /\ ProcessVideo(o)
            /\ UNCHANGED << display_vars, prompt_vars, context_vars >>

\* One iteration of a retry round with the probe returning d: the probe runs
\* only for an answer that passed the retry validation.
ProbedRetryVideo(o, d) ==
    LET probe == DurationText(variant, d)
        present == video_paths[PathOf(error_files[ridx])].exists
        valid == present /\ o.kind = "text" /\ RetryVerdict[variant, o.ans]
    IN
    /\ pc = "retry_body"
    /\ ~AtCeiling(request_count)
    /\ IF valid
       THEN IF probe.raised
            THEN ProbeRaises
            ELSE /\ RetryVideo(o)
                 /\ duration_text' = probe.text
                 /\ UNCHANGED << paragraph, prompt_vars, context_vars >>
       ELSE /\ RetryVideo(o)
            /\ UNCHANGED << display_vars, prompt_vars, context_vars >>

\* An iteration of either loop, the service coming to o and the probe to d.
ProbeStep(o, d) ==
    /\ ProbedProcessVideo(o, d) \/ ProbedRetryVideo(o, d)
    /\ UNCHANGED << split_vars, step_vars >>

ProbeNext ==
    \/ Start /\ UNCHANGED << split_vars, step_vars, display_vars, prompt_vars, context_vars >>
    \/ \E o \in Outcomes(video_paths) : \E d \in Durations :
          ProbedProcessVideo(o, d) /\ UNCHANGED << split_vars, step_vars >>
    \/ \E answer \in BOOLEAN :
          RetryHead(answer) /\ UNCHANGED << split_vars, step_vars, display_vars, prompt_vars, context_vars >>
    \/ \E o \in Outcomes(video_paths) : \E d \in Durations :
          ProbedRetryVideo(o, d) /\ UNCHANGED << split_vars, step_vars >>
    \/ Finalize /\ UNCHANGED << split_vars, step_vars, display_vars, prompt_vars, context_vars >>
    \/ \E answer \in BOOLEAN :
          SavePrompt(answer) /\ UNCHANGED << context_vars, split_vars, step_vars, display_vars >>
    \/ signal_handler /\ UNCHANGED << split_vars, step_vars, display_vars, prompt_vars, context_vars >>

\* The two scripts whose probe lines differ (bare and guarded format_time),
\* run with a credential over clips of different names, retry rounds automatic.
ProbeInit ==
    /\ Init
    /\ variant \in {"A25", "C20"}
    /\ api_key
    /\ auto_retry = HasRetry(variant)
    /\ \A j, k \in 1..Len(video_paths) :
          video_paths[j].base = video_paths[k].base => j = k

ProbeSpec == ProbeInit /\ [][ProbeNext]_vars

\* ------------------------------------------------- format_text_with_bold

\* The texts of q, one after the other.
RECURSIVE Flatten(_)
Flatten(q) == IF q = << >> THEN << >> ELSE Head(q) \o Flatten(Tail(q))

MarkStar == <<"*">>
MarkTwoStars == <<"*", "*">>

endswith(t, w) ==
    Len(w) <= Len(t) /\ SubSeq(t, Len(t) - Len(w) + 1, Len(t)) = w

\* Where a match of \*\*.*?\*\* (mark "**") or of \*.*?\* (mark "*") that opens
\* at i closes: the nearest mark after the opening one, nothing but characters
\* other than the newline between the two. 0 if there is none.
CloseOf(t, i, mark) ==
    LET m == Len(mark)
        closes == {j \in (i + m)..(Len(t) - m + 1) :
                     /\ SubSeq(t, j, j + m - 1) = mark
                     /\ \A k \in (i + m)..(j - 1) : t[k] # "\n"}
    IN IF closes = {} THEN 0
       ELSE CHOOSE j \in closes : \A k \in closes : j <= k

\* re.split(r'(<mark>.*?<mark>)', t): the matches, leftmost first and not
\* overlapping, each with the text before it, and the text after the last.
RECURSIVE re_split(_, _)
re_split(t, mark) ==
    LET m == Len(mark)
        opens == {i \in 1..Len(t) :
                    /\ i + m - 1 <= Len(t)
                    /\ SubSeq(t, i, i + m - 1) = mark
                    /\ CloseOf(t, i, mark) # 0}
    IN IF opens = {} THEN <<t>>
       ELSE LET i == CHOOSE x \in opens : \A y \in opens : x <= y
                j == CloseOf(t, i, mark)
            IN << SubSeq(t, 1, i - 1), SubSeq(t, i, j + m - 1) >>
                   \o re_split(SubSeq(t, j + m, Len(t)), mark)

Run(style, t) == [style |-> style, text |-> t]

\* The inner loop: a part of the italic split that starts and ends with "*"
\* goes in without its first and last character, in italics.
ItalicRun(part) ==
    IF startswith(part, MarkStar) /\ endswith(part, MarkStar)
    THEN Run("italic", SubSeq(part, 2, Len(part) - 1))
    ELSE Run("plain", part)

\* The outer loop: a part of the bold split that starts and ends with "**"
\* goes in without its first two and last two characters, in bold; any other
\* part goes through the italic split.
RunsOfPart(part) ==
    IF startswith(part, MarkTwoStars) /\ endswith(part, MarkTwoStars)
    THEN << Run("bold", SubSeq(part, 3, Len(part) - 2)) >>
    ELSE LET italic_parts == re_split(part, MarkStar)
         IN [k \in 1..Len(italic_parts) |-> ItalicRun(italic_parts[k])]

\* The runs format_text_with_bold adds to the paragraph, in order.
format_text_with_bold(text) ==
    LET parts == re_split(text, MarkTwoStars)
    IN Flatten([k \in 1..Len(parts) |-> RunsOfPart(parts[k])])

FormatTokens == {MarkStar, MarkTwoStars, <<"a">>, <<"\n">>}

\* '**Beat** at *00:05.120*': one bold and one italic pair.
EmphasisAnswer ==
    << "*", "*", "B", "e", "a", "t", "*", "*", " ", "a", "t", " ",
       "*", "0", "0", ":", "0", "5", ".", "1", "2", "0", "*" >>

FormatInputs ==
    {Flatten(q) : q \in UNION {[1..n -> FormatTokens] : n \in 0..MaxTokens}}
        \cup {EmphasisAnswer}

\* A stored answer is about to be written to the report of
\* gemini2.5_analysis_doc.py.
FormatInit ==
    /\ variant = "A25"
    /\ api_key = TRUE
    /\ video_paths = <<[base |-> 1, exists |-> TRUE]>>
    /\ auto_retry = FALSE
    /\ pc = "finalize"
    /\ raised = "none"
    /\ idx = 1
    /\ request_count = 1
    /\ processing_time = "bound"
    /\ doc = [created |-> TRUE, body |-> << >>]
    /\ processing_times = << >>
    /\ video_responses = << >>
    /\ video_retry_counts = << >>
    /\ error_log = << >>
    /\ error_log_keys = << >>
    /\ error_files = << >>
    /\ retry_count = 0
    /\ ridx = 1
    /\ report = NoReport
    /\ prompts = 0
    /\ saved = 0
    /\ uploads = <<1>>
    /\ generates = <<1>>
    /\ deletes = <<1>>
    /\ usable = << << >> >>
    /\ attempt = [serial |-> 1, pos |-> 1, retry |-> 0, kind |-> "text", ans |-> 0]
    /\ approved = FALSE
    /\ declined = FALSE
    /\ response_text = << >>
    /\ parsed = "idle"
    /\ rule = 0
    /\ action = << >>
    /\ category = << >>
    /\ uploaded_file_resource = None
    /\ live = {}
    /\ duration_text = "unset"
    /\ paragraph \in {[text |-> t, runs |-> << >>, formatted |-> FALSE] : t \in FormatInputs}
    /\ save_doc = "unasked"
    /\ context_resource = None

\* raw_para = doc.add_paragraph(); format_text_with_bold(raw_para, text)
FormatParagraph ==
    /\ ~paragraph.formatted
    /\ paragraph' = [paragraph EXCEPT !.runs = format_text_with_bold(paragraph.text),
                                      !.formatted = TRUE]
    /\ UNCHANGED << duration_text, run_vars, split_vars, step_vars, prompt_vars, context_vars >>

FormatNext == FormatParagraph

FormatSpec == FormatInit /\ [][FormatNext]_vars

\* ------------------------------------------------ the splitter on its own

SplitTokens ==
    { MarkOneParen, MarkTwoParen, MarkOneDot, MarkTwoDot, MarkAction, MarkCategory,
      MarkTheGesture, <<" ">>, <<"\n">>, <<"a">> }

\* The answer of the specification's end-to-end scenario.
ExampleAnswer ==
    <<"1", ")", " ", "T", "h", "e", " ", "s", "p", "e", "a", "k", "e", "r",
      " ", "r", "a", "i", "s", "e", "s", " ", "b", "o", "t", "h", " ", "h",
      "a", "n", "d", "s", ".", " ", "2", ")", " ", "T", "h", "i", "s", " ",
      "i", "s", " ", "a", " ", "b", "e", "a", "t", " ", "g", "e", "s", "t",
      "u", "r", "e", " ", "a", "t", " ", "0", "0", ":", "0", "5", ".", "1",
      "2", "0", ".">>

\* An answer whose action mentions a timestamp.
TimestampAnswer ==
    <<"1", ")", " ", "A", "t", " ", "0", "0", ":", "0", "1", ".", "1", "2",
      "0", " ", "t", "h", "e", " ", "h", "a", "n", "d", " ", "r", "i", "s",
      "e", "s", ".", " ", "2", ")", " ", "A", " ", "b", "e", "a", "t", " ",
      "g", "e", "s", "t", "u", "r", "e", ".">>

\* The answers tried: every sequence of at most MaxTokens tokens, and the two
\* written out above.
\* '*1)1.' and '2.*' on two lines: the splitter raises on it, and its
\* asterisks have no partner on their line.
StarredAnswer == << "*", "1", ")", "1", ".", "\n", "2", ".", "*" >>

SplitInputs ==
    {Flatten(q) : q \in UNION {[1..n -> SplitTokens] : n \in 0..MaxTokens}}
        \cup {ExampleAnswer, TimestampAnswer, StarredAnswer}

\* The answer to the first of two videos has arrived ("if response.parts:")
\* in a run of gemini2.0_context.py; its upload is still on the service.
SplitInit ==
    /\ variant = "C20"
    /\ api_key = TRUE
    /\ video_paths = <<[base |-> 1, exists |-> TRUE], [base |-> 2, exists |-> TRUE]>>
    /\ auto_retry = FALSE
    /\ pc = "generate"
    /\ raised = "none"
    /\ idx = 1
    /\ request_count = 1
    /\ processing_time = "bound"
    /\ doc = [created |-> TRUE, body |-> << >>]
    /\ processing_times = << >>
    /\ video_responses = << >>
    /\ video_retry_counts = << >>
    /\ error_log = << >>
    /\ error_log_keys = << >>
    /\ error_files = << >>
    /\ retry_count = 0
    /\ ridx = 1
    /\ report = NoReport
    /\ prompts = 0
    /\ saved = 0
    /\ uploads = <<1, 0>>
    /\ generates = <<1, 0>>
    /\ deletes = <<0, 0>>
    /\ usable = << << >>, << >> >>
    /\ attempt = [serial |-> 1, pos |-> 1, retry |-> 0, kind |-> "text", ans |-> 0]
    /\ approved = FALSE
    /\ declined = FALSE
    /\ response_text \in SplitInputs
    /\ parsed = "text"
    /\ rule = 0
    /\ action = << >>
    /\ category = << >>
    /\ uploaded_file_resource = <<1, 1>>
    /\ live = {<<1, 1>>}
    /\ duration_text = "unset"
    /\ paragraph = [text |-> << >>, runs |-> << >>, formatted |-> FALSE]
    /\ save_doc = "unasked"
    /\ context_resource = None

\* The if / elif / else chain of the try block; a missing parts[1] raises and
\* the except branch writes the raw answer instead.
ParseResponse ==
    /\ pc = "generate"
    /\ parsed = "text"
    /\ LET s == SplitResponse(response_text) IN
        /\ rule' = s.rule
        /\ IF s.raised
           THEN /\ parsed' = "raw"
                /\ UNCHANGED << action, category >>
           ELSE /\ parsed' = "split"
                /\ action' = s.action
                /\ category' = s.category
    /\ UNCHANGED << response_text, run_vars, step_vars, display_vars, prompt_vars, context_vars >>

\* The clean-up of the action, then the two sections are written, the
\* category last; the finally clause of the iteration comes next.
WriteSections ==
    /\ pc = "generate"
    /\ parsed = "split"
    /\ action' = CleanUp(action)
    /\ parsed' = "written"
    /\ paragraph' = [text |-> category, runs |-> format_text_with_bold(category),
                     formatted |-> TRUE]
    /\ pc' = "finally"
    /\ UNCHANGED << response_text, rule, category, step_vars, duration_text, prompt_vars, context_vars,
                    variant, api_key, video_paths, auto_retry, raised, idx, request_count,
                    processing_time, doc, processing_times, video_responses,
                    video_retry_counts, error_log, error_log_keys, error_files, retry_count,
                    ridx, report, prompts, saved, uploads, generates, deletes, usable,
                    attempt, approved, declined >>

\* "except Exception as e:" of the splitter: the answer goes into the report
\* as it came, under 'Raw Analysis:'; the finally clause comes next.
WriteRaw ==
    /\ pc = "generate"
    /\ parsed = "raw"
    /\ paragraph' = [text |-> response_text,
                     runs |-> format_text_with_bold(response_text),
                     formatted |-> TRUE]
    /\ pc' = "finally"
    /\ UNCHANGED << split_vars, step_vars, duration_text, prompt_vars, context_vars, variant, api_key,
                    video_paths, auto_retry, raised, idx, request_count, processing_time, doc,
                    processing_times, video_responses, video_retry_counts, error_log,
                    error_log_keys, error_files, retry_count, ridx, report, prompts, saved,
                    uploads, generates, deletes, usable, attempt, approved, declined >>

\* --------------------------------------------- the iteration step by step

\* "if uploaded_file_resource:" of the finally clauses.
HasHandle_Never(h) == FALSE

HasHandle(h) == h # None

\* What generate_content can come to once the upload went through: a raise,
\* no text, a usable answer (1) or a blank one (5).
AfterUpload(queue) ==
    {o \in Outcomes(queue) : o.kind # "upload_error" /\ o.ans \in {0, 1, 5}}

\* The attempt record while the attempt is under way.
Underway(kind) == [kind |-> kind, ans |-> 0]

\* The top of "for video_path in video_paths": the loop ends (retry phase or
\* closing sections next), or the missing file is skipped, or the iteration
\* starts with uploaded_file_resource = None.
LoopTop ==
    /\ pc = "initial"
    /\ IF idx > Len(video_paths) \/ (HasCeiling(variant) /\ AtCeiling(request_count))
       THEN /\ pc' = IF HasRetry(variant) THEN "retry_head" ELSE "finalize"
            /\ error_files' = IF HasRetry(variant) THEN error_log_keys ELSE error_files
            /\ UNCHANGED << idx, error_log, error_log_keys, uploaded_file_resource >>
       ELSE IF ~video_paths[idx].exists
       THEN /\ pc' = "initial"
            /\ idx' = idx + 1
            /\ IF HasRetry(variant)
               THEN /\ error_log' = Put(error_log, video_paths[idx].base,
                                        <<Entry("file_not_found", 0, 0)>>)
                    /\ error_log_keys' = PutKey(error_log_keys, video_paths[idx].base)
               ELSE UNCHANGED << error_log, error_log_keys >>
            /\ UNCHANGED << error_files, uploaded_file_resource >>
       ELSE /\ pc' = "upload"
            /\ uploaded_file_resource' = None
            /\ UNCHANGED << idx, error_log, error_log_keys, error_files >>
    /\ UNCHANGED << display_vars, prompt_vars, context_vars, split_vars, variant, api_key, video_paths, auto_retry,
                    raised, request_count, processing_time, doc,
                    processing_times, video_responses, video_retry_counts,
                    retry_count, ridx, report, prompts, saved, uploads,
                    generates, deletes, usable, attempt, approved, declined,
                    live >>

\* genai.upload_file(...) of the initial pass; a raise goes to the except
\* clause, which records the error.
UploadVideo(ok) ==
    LET fn == video_paths[idx].base
        handle == <<idx, uploads[idx] + 1>>
    IN
    /\ pc = "upload"
    /\ uploads' = Bump(uploads, idx)
    /\ attempt' = NextAttempt(idx, 0, Underway(IF ok THEN "uploaded" ELSE "upload_error"))
    /\ IF ok
       THEN /\ uploaded_file_resource' = handle
            /\ live' = live \cup {handle}
            /\ pc' = "generate"
            /\ UNCHANGED << error_log, error_log_keys, doc >>
       ELSE /\ pc' = "finally"
            /\ IF HasRetry(variant)
               THEN /\ error_log' = Put(error_log, fn, <<Entry("error", 0, 0)>>)
                    /\ error_log_keys' = PutKey(error_log_keys, fn)
                    /\ UNCHANGED doc
               ELSE /\ doc' = [doc EXCEPT !.body = Append(@, Block("error", fn, 0, 0))]
                    /\ UNCHANGED << error_log, error_log_keys >>
            /\ UNCHANGED << uploaded_file_resource, live >>
    /\ UNCHANGED << display_vars, prompt_vars, context_vars, split_vars, variant, api_key, video_paths, auto_retry,
                    raised, idx, request_count, processing_time,
                    processing_times, video_responses, video_retry_counts,
                    error_files, retry_count, ridx, report, prompts, saved,
                    generates, deletes, usable, approved, declined >>

\* model.generate_content(...) of the initial pass and what follows it in the
\* try block: the request is counted, the answer validated and stored or
\* logged (A25, N25) or written to the report (C20, D20).
GenerateContent(o) ==
    LET fn == video_paths[idx].base
        answered == o.kind \in {"no_text", "text"}
        valid == HasRetry(variant) /\ o.kind = "text" /\ InitialVerdict[variant, o.ans]
        failure ==
            IF ~answered THEN Entry("error", 0, 0)
            ELSE IF o.kind = "no_text" THEN Entry("no_response", 0, 0)
            ELSE Entry("initial", 0, o.ans)
        block ==
            IF ~answered THEN Block("error", fn, 0, 0)
            ELSE IF o.kind = "no_text" THEN Block("no_analysis", fn, 0, 0)
            ELSE Block("analysis", fn, 0, o.ans)
    IN
    /\ pc = "generate"
    /\ pc' = "finally"
    /\ generates' = Bump(generates, idx)
    /\ attempt' = [attempt EXCEPT !.kind = o.kind, !.ans = o.ans]
    /\ request_count' = IF answered /\ HasCeiling(variant)
                        THEN request_count + 1 ELSE request_count
    /\ processing_time' = IF answered THEN "bound" ELSE processing_time
    /\ IF HasRetry(variant)
       THEN /\ IF valid
               THEN /\ video_responses' = Put(video_responses, fn, o.ans)
                    /\ video_retry_counts' = Put(video_retry_counts, fn, 0)
                    /\ usable' = [usable EXCEPT ![idx] = Append(@, o.ans)]
                    /\ UNCHANGED << error_log, error_log_keys >>
               ELSE /\ error_log' = Put(error_log, fn, <<failure>>)
                    /\ error_log_keys' = PutKey(error_log_keys, fn)
                    /\ UNCHANGED << video_responses, video_retry_counts, usable >>
            /\ UNCHANGED doc
       ELSE /\ doc' = [doc EXCEPT !.body = Append(@, block)]
            /\ UNCHANGED << video_responses, video_retry_counts, usable, error_log,
                            error_log_keys >>
    /\ UNCHANGED << display_vars, prompt_vars, context_vars, split_vars, variant, api_key, video_paths, auto_retry,
                    raised, idx, processing_times, error_files, retry_count,
                    ridx, report, prompts, saved, uploads, deletes, approved,
                    declined, uploaded_file_resource, live >>

\* The finally clause of the initial pass: delete_file on the handle if there
\* is one, then processing_times.append(...), which raises in A25 and N25
\* while processing_time is unbound.
DeleteUploaded ==
    LET fn == video_paths[idx].base
        unbound == HasRetry(variant) /\ processing_time = "unbound"
    IN
    /\ pc = "finally"
    /\ IF HasHandle(uploaded_file_resource)
       THEN /\ deletes' = Bump(deletes, idx)
            /\ live' = live \ {uploaded_file_resource}
       ELSE UNCHANGED << deletes, live >>
    /\ IF unbound
       THEN /\ raised' = "UnboundLocalError"
            /\ pc' = IF HasSavePrompt(variant) THEN "save" ELSE "done"
            /\ prompts' = IF HasSavePrompt(variant) THEN prompts + 1 ELSE prompts
            /\ UNCHANGED << idx, processing_times >>
       ELSE /\ processing_times' = Append(processing_times, fn)
            /\ idx' = idx + 1
            /\ pc' = "initial"
            /\ UNCHANGED << raised, prompts >>
    /\ UNCHANGED << display_vars, prompt_vars, context_vars, split_vars, variant, api_key, video_paths, auto_retry,
                    request_count, processing_time, doc, video_responses,
                    video_retry_counts, error_log, error_log_keys, error_files,
                    retry_count, ridx, report, saved, uploads, generates,
                    usable, attempt, approved, declined,
                    uploaded_file_resource >>

\* The top of "for error_file in error_files": the round ends (error_files
\* is filtered, retry_count incremented), or the file is away and skipped, or
\* retry_failed_analysis is entered with uploaded_file_resource = None.
RetryLoopTop ==
    LET Pending(f) == f \notin DOMAIN video_responses IN
    /\ pc = "retry_body"
    /\ IF ridx > Len(error_files) \/ AtCeiling(request_count)
       THEN /\ error_files' = SelectSeq(error_files, Pending)
            /\ retry_count' = NextRetryCount(retry_count)
            /\ ridx' = 1
            /\ approved' = FALSE
            /\ pc' = IF error_files' = << >> THEN "finalize" ELSE "retry_head"
            /\ UNCHANGED uploaded_file_resource
       ELSE IF ~video_paths[PathOf(error_files[ridx])].exists
       THEN /\ ridx' = ridx + 1
            /\ pc' = "retry_body"
            /\ UNCHANGED << error_files, retry_count, approved, uploaded_file_resource >>
       ELSE /\ pc' = "retry_upload"
            /\ uploaded_file_resource' = None
            /\ UNCHANGED << error_files, retry_count, approved, ridx >>
    /\ UNCHANGED << display_vars, prompt_vars, context_vars, split_vars, variant, api_key, video_paths, auto_retry,
                    raised, idx, request_count, processing_time, doc,
                    processing_times, video_responses, video_retry_counts,
                    error_log, error_log_keys, report, prompts, saved, uploads,
                    generates, deletes, usable, attempt, declined, live >>

\* genai.upload_file(...) in retry_failed_analysis.
RetryUpload(ok) ==
    LET k == PathOf(error_files[ridx])
        handle == <<k, uploads[k] + 1>>
    IN
    /\ pc = "retry_upload"
    /\ uploads' = Bump(uploads, k)
    /\ attempt' = NextAttempt(k, RetryNumber(retry_count),
                              Underway(IF ok THEN "uploaded" ELSE "upload_error"))
    /\ IF ok
       THEN /\ uploaded_file_resource' = handle
            /\ live' = live \cup {handle}
            /\ pc' = "retry_generate"
       ELSE /\ pc' = "retry_finally"
            /\ UNCHANGED << uploaded_file_resource, live >>
    /\ UNCHANGED << display_vars, prompt_vars, context_vars, split_vars, variant, api_key, video_paths, auto_retry,
                    raised, idx, request_count, processing_time, doc,
                    processing_times, video_responses, video_retry_counts,
                    error_log, error_log_keys, error_files, retry_count, ridx,
                    report, prompts, saved, generates, deletes, usable,
                    approved, declined >>

\* model.generate_content(...) in retry_failed_analysis; an answer with a
\* text is added to the report at once.
RetryGenerate(o) ==
    LET ef == error_files[ridx] IN
    /\ pc = "retry_generate"
    /\ pc' = "retry_finally"
    /\ generates' = Bump(generates, attempt.pos)
    /\ attempt' = [attempt EXCEPT !.kind = o.kind, !.ans = o.ans]
    /\ doc' = IF o.kind = "text"
              THEN [doc EXCEPT !.body = Append(@, Block("retry", ef, attempt.retry, o.ans))]
              ELSE doc
    /\ UNCHANGED << display_vars, prompt_vars, context_vars, split_vars, variant, api_key, video_paths, auto_retry,
                    raised, idx, request_count, processing_time,
                    processing_times, video_responses, video_retry_counts,
                    error_log, error_log_keys, error_files, retry_count, ridx,
                    report, prompts, saved, uploads, deletes, usable, approved,
                    declined, uploaded_file_resource, live >>

\* The finally clause of retry_failed_analysis, then the caller: the request
\* is counted, the answer validated and stored or logged.
RetryDelete ==
    LET ef == error_files[ridx]
        k == attempt.pos
        got_text == attempt.kind = "text"
        truthy == got_text /\ Truthy(Answers[attempt.ans])
        valid == got_text /\ RetryVerdict[variant, attempt.ans]
    IN
    /\ pc = "retry_finally"
    /\ pc' = "retry_body"
    /\ IF HasHandle(uploaded_file_resource)
       THEN /\ deletes' = Bump(deletes, k)
            /\ live' = live \ {uploaded_file_resource}
       ELSE UNCHANGED << deletes, live >>
    /\ request_count' = request_count + 1
    /\ ridx' = ridx + 1
    /\ IF valid
       THEN /\ video_responses' = Put(video_responses, ef, attempt.ans)
            /\ video_retry_counts' = Put(video_retry_counts, ef, attempt.retry)
            /\ usable' = [usable EXCEPT ![k] = Append(@, attempt.ans)]
            /\ UNCHANGED error_log
       ELSE /\ error_log' =
                [error_log EXCEPT ![ef] =
                    Append(@, IF truthy THEN Entry("retry", attempt.retry, attempt.ans)
                              ELSE Entry("retry_no_response", attempt.retry, 0))]
            /\ UNCHANGED << video_responses, video_retry_counts, usable >>
    /\ UNCHANGED << display_vars, prompt_vars, context_vars, split_vars, variant, api_key, video_paths, auto_retry,
                    raised, idx, processing_time, doc, processing_times,
                    error_log_keys, error_files, retry_count, report, prompts,
                    saved, uploads, generates, attempt, approved, declined,
                    uploaded_file_resource >>

\* SIGINT between two of these steps: sys.exit(0) raises SystemExit where the
\* script stands. Inside a try block whose finally clause deletes the upload
\* the delete is still attempted; inside the finally clause itself it is not.
StepSignal ==
    LET inTry == pc \in {"generate", "retry_generate"} IN
    /\ pc # "done"
    /\ raised' = "SystemExit"
    /\ IF inTry /\ HasHandle(uploaded_file_resource)
       THEN /\ deletes' = Bump(deletes, attempt.pos)
            /\ live' = live \ {uploaded_file_resource}
       ELSE UNCHANGED << deletes, live >>
    /\ IF HasSavePrompt(variant) /\ doc.created /\ pc # "save"
       THEN /\ pc' = "save"
            /\ prompts' = prompts + 1
       ELSE /\ pc' = "done"
            /\ UNCHANGED prompts
    /\ UNCHANGED << display_vars, prompt_vars, context_vars, split_vars, variant, api_key, video_paths, auto_retry, idx,
                    request_count, processing_time, doc, processing_times,
                    video_responses, video_retry_counts, error_log,
                    error_log_keys, error_files, retry_count, ridx, report,
                    saved, uploads, generates, usable, attempt, approved,
                    declined, uploaded_file_resource >>

\* The scripts that upload a context PDF before the loop.
HasContext(v) == v \in {"C20", "D20"}

\* The handle of the context PDF: position 0 of the queue.
ContextHandle == <<0, 1>>

\* Start with what it uploads: "if os.path.exists(CONTEXT_PDF):" and the
\* upload of the PDF, whose exception is logged and dropped. outcome is
\* "missing", "upload_error" or "uploaded".
StartWithContext(outcome) ==
    /\ Start
    /\ context_resource' =
           IF HasContext(variant) /\ HasCredential(api_key) /\ outcome = "uploaded"
           THEN ContextHandle
           ELSE None

StepNext ==
    \/ \E outcome \in {"missing", "upload_error", "uploaded"} :
          StartWithContext(outcome)
              /\ UNCHANGED << display_vars, prompt_vars, split_vars, step_vars >>
    \/ LoopTop
    \/ \E ok \in BOOLEAN : UploadVideo(ok)
    \/ \E o \in AfterUpload(video_paths) : GenerateContent(o)
    \/ DeleteUploaded
    \/ \E answer \in BOOLEAN : RetryHead(answer) /\ UNCHANGED << display_vars, prompt_vars, context_vars, split_vars, step_vars >>
    \/ RetryLoopTop
    \/ \E ok \in BOOLEAN : RetryUpload(ok)
    \/ \E o \in AfterUpload(video_paths) : RetryGenerate(o)
    \/ RetryDelete
    \/ Finalize /\ UNCHANGED << display_vars, prompt_vars, context_vars, split_vars, step_vars >>
    \/ \E answer \in BOOLEAN : SavePrompt(answer) /\ UNCHANGED << context_vars, display_vars, split_vars, step_vars >>
    \/ StepSignal

StepSpec == Init /\ [][StepNext]_vars

\* ------------------------------------------ gemma3n_analysis_doc.py by steps

\* "'uploaded_file_resource' in locals()": the name is bound once an upload
\* has returned, in whichever iteration (None stands for the unbound name).
InLocals(h) == h # None

\* The model is loaded and the report object created; the loop is about to
\* start. The script has no request ceiling, no retries and no save prompt.
GemmaInit ==
    /\ variant = "G3N"
    /\ api_key = TRUE
    /\ video_paths \in Queues
    /\ auto_retry = FALSE
    /\ pc = "initial"
    /\ raised = "none"
    /\ idx = 1
    /\ request_count = 0
    /\ processing_time = "unbound"
    /\ doc = [created |-> TRUE, body |-> << >>]
    /\ processing_times = << >>
    /\ video_responses = << >>
    /\ video_retry_counts = << >>
    /\ error_log = << >>
    /\ error_log_keys = << >>
    /\ error_files = << >>
    /\ retry_count = 0
    /\ ridx = 1
    /\ report = NoReport
    /\ prompts = 0
    /\ saved = 0
    /\ uploads = [k \in 1..Len(video_paths) |-> 0]
    /\ generates = [k \in 1..Len(video_paths) |-> 0]
    /\ deletes = [k \in 1..Len(video_paths) |-> 0]
    /\ usable = [k \in 1..Len(video_paths) |-> << >>]
    /\ attempt = [serial |-> 0, pos |-> 0, retry |-> 0, kind |-> "none", ans |-> 0]
    /\ approved = FALSE
    /\ declined = FALSE
    /\ response_text = << >>
    /\ parsed = "idle"
    /\ rule = 0
    /\ action = << >>
    /\ category = << >>
    /\ uploaded_file_resource = None
    /\ live = {}
    /\ duration_text = "unset"
    /\ paragraph = [text |-> << >>, runs |-> << >>, formatted |-> FALSE]
    /\ save_doc = "unasked"
    /\ context_resource = None

\* genai.delete_file(uploaded_file_resource.name) on the handle h of position h[1].
DeleteFile(h) ==
    /\ deletes' = Bump(deletes, h[1])
    /\ live' = live \ {h}

\* The top of "for video_path in video_paths": the summary and doc.save after
\* the last video, "continue" for a missing file, else on to the upload.
GemmaLoopTop ==
    /\ variant = "G3N"
    /\ pc = "initial"
    /\ IF idx > Len(video_paths)
       THEN /\ pc' = "done"
            /\ saved' = saved + 1
            /\ UNCHANGED idx
       ELSE /\ UNCHANGED saved
            /\ IF video_paths[idx].exists
               THEN /\ pc' = "upload"
                    /\ UNCHANGED idx
               ELSE /\ pc' = "initial"
                    /\ idx' = idx + 1
    /\ UNCHANGED << split_vars, display_vars, prompt_vars, context_vars, variant, api_key, video_paths,
                    auto_retry, raised, request_count, processing_time, doc, processing_times,
                    video_responses, video_retry_counts, error_log, error_log_keys,
                    error_files, retry_count, ridx, report, prompts, uploads, generates,
                    deletes, usable, attempt, approved, declined, uploaded_file_resource, live >>

\* genai.upload_file(...) returns a resource or raises.
GemmaUpload(ok) ==
    LET handle == <<idx, uploads[idx] + 1>> IN
    /\ variant = "G3N"
    /\ pc = "upload"
    /\ uploads' = Bump(uploads, idx)
    /\ IF ok
       THEN /\ uploaded_file_resource' = handle
            /\ live' = live \cup {handle}
            /\ pc' = "generate"
       ELSE /\ pc' = "except"
            /\ UNCHANGED << uploaded_file_resource, live >>
    /\ UNCHANGED << split_vars, display_vars, prompt_vars, context_vars, variant, api_key, video_paths,
                    auto_retry, raised, idx, request_count, processing_time, doc,
                    processing_times, video_responses, video_retry_counts, error_log,
                    error_log_keys, error_files, retry_count, ridx, report, prompts, saved,
                    generates, deletes, usable, attempt, approved, declined >>

\* model.generate_content(prompt_parts) returns (the answer, or the note that
\* none came, goes into the report) or raises.
GemmaGenerate(ok) ==
    /\ variant = "G3N"
    /\ pc = "generate"
    /\ generates' = Bump(generates, idx)
    /\ IF ok
       THEN /\ doc' = [doc EXCEPT !.body =
                          Append(@, Block("analysis", video_paths[idx].base, 0, 0))]
            /\ pc' = "finally"
       ELSE /\ pc' = "except"
            /\ UNCHANGED doc
    /\ UNCHANGED << split_vars, display_vars, prompt_vars, context_vars, variant, api_key, video_paths,
                    auto_retry, raised, idx, request_count, processing_time, processing_times,
                    video_responses, video_retry_counts, error_log, error_log_keys,
                    error_files, retry_count, ridx, report, prompts, saved, uploads, deletes,
                    usable, attempt, approved, declined, uploaded_file_resource, live >>

\* "except Exception as upload_error:": clean up, then raise upload_error.
GemmaExcept ==
    /\ variant = "G3N"
    /\ pc = "except"
    /\ IF InLocals(uploaded_file_resource)
       THEN DeleteFile(uploaded_file_resource)
       ELSE UNCHANGED << deletes, live >>
    /\ raised' = "Exception"
    /\ pc' = "finally"
    /\ UNCHANGED << split_vars, display_vars, prompt_vars, context_vars, variant, api_key, video_paths,
                    auto_retry, idx, request_count, processing_time, doc, processing_times,
                    video_responses, video_retry_counts, error_log, error_log_keys,
                    error_files, retry_count, ridx, report, prompts, saved, uploads,
                    generates, usable, attempt, approved, declined, uploaded_file_resource >>

\* The finally clause, then the outer "except Exception as e:" for an error
\* on its way out, then the processing time of the iteration.
GemmaFinally ==
    /\ variant = "G3N"
    /\ pc = "finally"
    /\ IF InLocals(uploaded_file_resource)
       THEN DeleteFile(uploaded_file_resource)
       ELSE UNCHANGED << deletes, live >>
    /\ doc' = IF raised = "Exception"
              THEN [doc EXCEPT !.body =
                       Append(@, Block("error", video_paths[idx].base, 0, 0))]
              ELSE doc
    /\ raised' = "none"
    /\ processing_times' = Append(processing_times, video_paths[idx].base)
    /\ idx' = idx + 1
    /\ pc' = "initial"
    /\ UNCHANGED << split_vars, display_vars, prompt_vars, context_vars, variant, api_key, video_paths,
                    auto_retry, request_count, processing_time, video_responses,
                    video_retry_counts, error_log, error_log_keys, error_files, retry_count,
                    ridx, report, prompts, saved, uploads, generates, usable, attempt,
                    approved, declined, uploaded_file_resource >>

GemmaNext ==
    \/ GemmaLoopTop
    \/ \E ok \in BOOLEAN : GemmaUpload(ok)
    \/ \E ok \in BOOLEAN : GemmaGenerate(ok)
    \/ GemmaExcept
    \/ GemmaFinally

GemmaSpec == GemmaInit /\ [][GemmaNext]_vars

\* The splitter with the end of its iteration: the finally clause is
\* DeleteUploaded.
SplitNext == ParseResponse \/ WriteSections \/ WriteRaw \/ DeleteUploaded

SplitSpec == SplitInit /\ [][SplitNext]_vars

\* ------------------------------------------------------------------ claims

Range(q) == {q[j] : j \in 1..Len(q)}

BaseOf(k) == video_paths[k].base

\* The step issues an upload-and-generate attempt.
Attempts == attempt'.serial # attempt.serial

\* Nothing is sent to the service in the step.
NoServiceCall == uploads' = uploads /\ generates' = generates /\ deletes' = deletes

\* No two queued paths share a base name.
DistinctNames ==
    \A j, k \in 1..Len(video_paths) : BaseOf(j) = BaseOf(k) => j = k

\* C1: the request counter never exceeds MAX_REQUESTS; once it equals the
\* ceiling no upload or generate call is made any more, neither loop is left
\* standing inside an iteration, and the run goes from the retry loop's head to
\* report finalization (unless a signal ends it).
C1_CeilingStopsRequests ==
    /\ [](request_count <= MAX_REQUESTS)
    /\ [](request_count = MAX_REQUESTS => pc \notin {"initial", "retry_body"})
    /\ [][request_count = MAX_REQUESTS => (uploads' = uploads /\ generates' = generates)]_vars
    /\ [][(request_count = MAX_REQUESTS /\ pc = "retry_head" /\ raised' = "none")
            => pc' = "finalize"]_vars
    /\ []((request_count = MAX_REQUESTS /\ pc = "done" /\ raised = "none")
            => report.written)

\* The ceiling is reached with files still waiting for a valid answer, and the
\* report was finalized.
C1_Witness ==
    /\ request_count = MAX_REQUESTS
    /\ HasRetry(variant)
    /\ error_files # << >>
    /\ report.written
    /\ raised = "none"

\* C2: a raising upload or generate is a failed attempt of that subject only:
\* no exception leaves the loop, the run goes on, no stored answer changes,
\* the failure is logged under the subject's name and (while no answer is
\* stored under that name) the name is among the files to retry.
C2_ServiceFailureIsLocal ==
    [][(Attempts /\ attempt'.kind \in {"upload_error", "generate_error"}) =>
        LET fn == BaseOf(attempt'.pos) IN
        /\ raised' = raised
        /\ pc' \in {"initial", "retry_head", "retry_body", "finalize"}
        /\ video_responses' = video_responses
        /\ HasRetry(variant) =>
            /\ fn \in DOMAIN error_log'
            /\ \A g \in (DOMAIN error_log) \ {fn} : error_log'[g] = error_log[g]
            /\ (pc' # "initial" /\ fn \notin DOMAIN video_responses)
                    => fn \in Range(error_files')]_vars

\* C3: with automatic retry and a missing file in the queue, the retry phase
\* ends: from the head of the retry loop the run reaches report finalization
\* or its exit.
C3_MissingFileRunEnds ==
    (/\ pc = "retry_head"
     /\ auto_retry
     /\ \E k \in 1..Len(video_paths) : ~video_paths[k].exists)
        ~> (pc \in {"finalize", "save", "done"})

\* C4: once an attempt for a queued path has yielded a usable answer, no
\* upload or generate call is made for that path any more and the answer
\* stored under its name stays as it is.
C4_ResolvedSubjectIsLeftAlone ==
    [][\A k \in 1..Len(video_paths) :
        usable[k] # << >> =>
            /\ uploads'[k] = uploads[k]
            /\ generates'[k] = generates[k]
            /\ BaseOf(k) \in DOMAIN video_responses'
            /\ video_responses'[BaseOf(k)] = video_responses[BaseOf(k)]]_vars

\* C5: a retry attempt is issued only below the ceiling and in automatic mode
\* or in a round the operator approved; after the operator declined a round
\* nothing is sent to the service and the run is at report finalization.
C5_RetryNeedsConsent ==
    /\ [][(Attempts /\ attempt'.retry > 0)
            => (request_count < MAX_REQUESTS /\ (auto_retry \/ approved))]_vars
    /\ [][declined => NoServiceCall]_vars
    /\ [](declined => (~auto_retry /\ pc \in {"finalize", "save", "done"}))
    /\ []((declined /\ pc = "done" /\ raised = "none") => report.written)

\* The operator declined a round although files were waiting and the budget
\* was not used up; the report was finalized without a retry.
C5_Witness ==
    /\ declined
    /\ error_files # << >>
    /\ request_count < MAX_REQUESTS
    /\ attempt.serial > 0
    /\ report.written

\* C6: with more than MAX_REQUESTS videos queued, all present, the initial
\* pass attempts exactly MAX_REQUESTS of them; the later ones are never
\* uploaded and nothing is recorded under a name only they carry.
C6_ExactlyCeilingAttempts ==
    (/\ HasCeiling(variant)
     /\ Len(video_paths) > MAX_REQUESTS
     /\ \A k \in 1..Len(video_paths) : video_paths[k].exists
     /\ pc \in {"retry_head", "finalize"}
     /\ retry_count = 0
     /\ attempt.retry = 0)
        => /\ Cardinality({k \in 1..Len(video_paths) : uploads[k] > 0}) = MAX_REQUESTS
           /\ \A k \in (MAX_REQUESTS + 1)..Len(video_paths) :
                /\ uploads[k] = 0
                /\ (\A j \in 1..MAX_REQUESTS : BaseOf(j) # BaseOf(k))
                        => BaseOf(k) \notin (DOMAIN video_responses) \cup (DOMAIN error_log)

ThreeChecks(t) == HasTimestamps(t) /\ WordCount(t) >= 50 /\ HasGestureTypes(t)

\* The two checks of gemini2.5_analysis_doc.py.
TwoChecks(t) == HasTimestamps(t) /\ WordCount(t) >= 50

\* The attempt of this step stored its answer as a successful analysis.
StoresAnswer ==
    LET fn == BaseOf(attempt'.pos) IN
    /\ fn \in DOMAIN video_responses'
    /\ video_responses'[fn] = attempt'.ans
    /\ video_retry_counts'[fn] = attempt'.retry

\* C8 as stated: in A25 and in N25 an answer, initial or retry, is stored as
\* a successful analysis if and only if it passes all three checks.
C8_StoredIffThreeChecks ==
    [][(Attempts /\ HasRetry(variant) /\ attempt'.kind = "text")
        => (StoresAnswer <=> ThreeChecks(Answers[attempt'.ans]))]_vars

\* C8 amended: N25 stores an answer, initial or retry, if and only if it
\* passes all three checks; A25 if and only if it has the timestamp and at
\* least 50 words, whatever its keywords.
C8_StoredIffConfiguredChecks ==
    [][(Attempts /\ HasRetry(variant) /\ attempt'.kind = "text")
        => (StoresAnswer <=> IF variant = "N25"
                              THEN ThreeChecks(Answers[attempt'.ans])
                              ELSE TwoChecks(Answers[attempt'.ans]))]_vars

\* A25 stored, on a retry, the answer that has no category keyword.
C8_Witness ==
    /\ variant = "A25"
    /\ attempt.retry > 0
    /\ attempt.kind = "text"
    /\ ~HasGestureTypes(Answers[attempt.ans])
    /\ BaseOf(attempt.pos) \in DOMAIN video_responses
    /\ video_responses[BaseOf(attempt.pos)] = attempt.ans

IsBlank(t) == \A j \in 1..Len(t) : t[j] \in Whitespace

\* C9: an empty or whitespace-only answer is never stored; it is logged as a
\* failed attempt under the subject's name and the subject stays among the
\* files to retry.
C9_BlankAnswerStaysInPool ==
    [][(Attempts /\ HasRetry(variant) /\ attempt'.kind = "text"
            /\ IsBlank(Answers[attempt'.ans])) =>
        LET fn == BaseOf(attempt'.pos) IN
        /\ video_responses' = video_responses
        /\ fn \in DOMAIN error_log'
        /\ error_log'[fn][Len(error_log'[fn])] \in
              { Entry("initial", 0, attempt'.ans),
                Entry("retry", attempt'.retry, attempt'.ans),
                Entry("retry_no_response", attempt'.retry, 0) }
        /\ IF pc' = "initial"
           THEN fn \in Range(error_log_keys')
           ELSE fn \in Range(error_files')]_vars

\* C10: a run ended by the interrupt signal after the report object was
\* created has saved the report or asked the operator about saving it.
C10_InterruptOffersSave ==
    (pc = "done" /\ raised = "SystemExit" /\ doc.created)
        => (prompts > 0 \/ saved > 0)

\* C11: without the API credential no upload, generate or delete call is
\* made, no report object is created, nothing is asked about saving and no
\* report file is written.
C11_NoCredentialNoRun ==
    ~api_key =>
        /\ \A k \in 1..Len(video_paths) :
              uploads[k] = 0 /\ generates[k] = 0 /\ deletes[k] = 0
        /\ ~doc.created
        /\ ~report.written
        /\ prompts = 0
        /\ saved = 0
        /\ pc \in {"start", "done"}

\* The run without a credential has returned from create_analysis_document.
C11_Witness ==
    /\ ~api_key
    /\ pc = "done"
    /\ raised = "none"
    /\ Len(video_paths) > 1
    /\ \E k \in 1..Len(video_paths) : video_paths[k].exists

\* C12: in the finished report the error log holds the raw text of every
\* answer that failed validation, initial or retry, also for a file that
\* obtained a usable answer later.
C12_FailedAnswersInReport ==
    report.written =>
        \A fn \in DOMAIN error_log :
            \A j \in 1..Len(error_log[fn]) :
                error_log[fn][j].kind \in {"initial", "retry"} =>
                    /\ fn \in DOMAIN report.errors
                    /\ error_log[fn][j] \in Range(report.errors[fn])

\* C13: an answer that contains "1)" and "2)" gets its two sections written,
\* and the category starts with "2)".
C13_CategoryStartsWithMarker ==
    (/\ parsed \in {"written", "raw"}
     /\ Contains(response_text, MarkOneParen)
     /\ Contains(response_text, MarkTwoParen))
        => /\ parsed = "written"
           /\ Len(category) >= 2
           /\ SubSeq(category, 1, 2) = <<"2", ")">>

\* An answer with both markers and text after the "2)" was split.
C13_Witness ==
    /\ parsed = "written"
    /\ Contains(response_text, MarkOneParen)
    /\ Contains(response_text, MarkTwoParen)
    /\ Len(category) > 2
    /\ action # << >>

\* The delimiter patterns of the splitter's rules 1 to 4, as the rules word
\* them.
Pattern1(t) == Contains(t, <<"1", ")">>) /\ Contains(t, <<"2", ")">>)

Pattern2(t) == Contains(t, <<"1", ".">>) /\ Contains(t, <<"2", ".">>)

Pattern3(t) == Contains(t, MarkAction) /\ Contains(t, MarkCategory)

Pattern4(t) ==
    /\ Len(StrippedLines(t)) >= 2
    /\ \E w \in {<<"2", ".">>, <<"2", ")">>, MarkCategory, MarkTheGesture} :
          startswith(StrippedLines(t)[2], w)

\* The splitter is through with the answer.
SplitDone == parsed \in {"written", "raw"}

\* t without its blanks.
Ink(t) ==
    LET Inked(c) == c \notin Whitespace IN SelectSeq(t, Inked)

\* t from position k on.
From(t, k) == SubSeq(t, k, Len(t))

\* C14: an answer that matches none of the four delimiter patterns is
\* written with the action equal to the answer, unchanged, and the category
\* equal to "Category not clearly specified in response".
C14_FallbackKeepsAnswer ==
    (/\ SplitDone
     /\ ~Pattern1(response_text)
     /\ ~Pattern2(response_text)
     /\ ~Pattern3(response_text)
     /\ ~Pattern4(response_text))
        => /\ parsed = "written"
           /\ action = response_text
           /\ category = NotSpecified

\* C15: for a non-empty answer an action and a category are written, and
\* neither is empty.
C15_SectionsNonEmpty ==
    (SplitDone /\ response_text # << >>)
        => /\ parsed = "written"
           /\ action # << >>
           /\ category # << >>

\* C16: the answer "1) The speaker raises both hands. 2) This is a beat
\* gesture at 00:05.120." is written with the action "The speaker raises both
\* hands." (its characters 4 to 33) and the category "2) This is a beat
\* gesture at 00:05.120." (its characters 35 to the end, the blank after "2)"
\* included).
C16_ScenarioSplit ==
    (SplitDone /\ response_text = ExampleAnswer)
        => /\ parsed = "written"
           /\ action = SubSeq(ExampleAnswer, 4, 33)
           /\ category = From(ExampleAnswer, 35)

\* C17: the first matching rule wins: an answer with "1." and "2." but not
\* both "1)" and "2)" is split by rule 2, an answer with "Action:" and
\* "Category:" that matches neither numbered rule by rule 3, and either rule
\* produces its action and category pair.
C17_RulesInPriorityOrder ==
    SplitDone =>
        /\ (Pattern2(response_text) /\ ~Pattern1(response_text))
              => /\ parsed = "written"
                 /\ rule = 2
                 /\ startswith(category, <<"2", ".">>)
        /\ (/\ Pattern3(response_text)
            /\ ~Pattern1(response_text)
            /\ ~Pattern2(response_text))
              => /\ parsed = "written"
                 /\ rule = 3
                 /\ startswith(category, MarkCategory)

\* C18: under rule 1 the category is "2)" and then everything that follows
\* the first "2)" of the answer: blanks aside, nothing of that remainder is
\* missing.
C18_CategoryKeepsRemainder ==
    (SplitDone /\ Pattern1(response_text))
        => /\ parsed = "written"
           /\ startswith(category, <<"2", ")">>)
           /\ Ink(From(category, 3))
                = Ink(From(response_text, Find(response_text, <<"2", ")">>) + 2))

\* The text before the first "2)", and t with its first "1)" taken out.
BeforeTwoParen(t) == SubSeq(t, 1, Find(t, <<"2", ")">>) - 1)

WithoutFirstOneParen(t) ==
    LET k == Find(t, <<"1", ")">>) IN
    IF k = 0 THEN t ELSE SubSeq(t, 1, k - 1) \o From(t, k + 2)

\* C19: under rule 1 the action is the text before the first "2)" with one
\* "1)" removed: blanks aside, every other character of it is kept, in order.
C19_ActionKeepsPrefix ==
    (SplitDone /\ Pattern1(response_text))
        => /\ parsed = "written"
           /\ Ink(action) = Ink(WithoutFirstOneParen(BeforeTwoParen(response_text)))

\* The steps of a retry round.
RetryPcs == {"retry_body", "retry_upload", "retry_generate", "retry_finally"}

\* C20: processing is strictly sequential. At most one uploaded handle is
\* waiting for its delete; an upload begins only when none is; a generate or
\* delete call is made for the one handle that is waiting; and a retry round
\* runs only after the initial pass has gone over every queued video.
C20_StrictlySequential ==
    /\ [](Cardinality(live) <= 1)
    /\ [][uploads' # uploads => live = {}]_vars
    /\ [][(generates' # generates \/ deletes' # deletes) =>
            /\ live = {uploaded_file_resource}
            /\ \A k \in 1..Len(video_paths) :
                  (generates'[k] # generates[k] \/ deletes'[k] # deletes[k])
                      => k = uploaded_file_resource[1]]_vars
    /\ [](pc \in RetryPcs =>
            /\ idx > Len(video_paths)
            /\ \A k \in 1..Len(video_paths) : video_paths[k].exists => uploads[k] >= 1)

\* A retry upload is waiting for its generate call, after an initial pass
\* over several videos.
C20_Witness ==
    /\ pc = "retry_generate"
    /\ Len(video_paths) >= 2
    /\ \A k \in 1..Len(video_paths) : uploads[k] >= 1
    /\ live = {uploaded_file_resource}
    /\ uploaded_file_resource[2] = 2

\* C21: the result of the duration probe never influences control flow.
\* Whenever an iteration of either loop is taken, the same iteration with the
\* same service outcome and any other result of the probe (a duration or a
\* failure) can be taken from the same state, and it ends in the same calls,
\* request counter, stored answers, error log and report: every variable of
\* the run but the text for the heading.
C21_ProbeDoesNotSteer ==
    [][ (\E o \in Outcomes(video_paths) : \E d \in Durations : ProbeStep(o, d))
        => \A after \in {run_vars'} :
             \A o \in {[kind |-> attempt'.kind, ans |-> attempt'.ans]} :
               \A d \in Durations :
                 ENABLED (ProbeStep(o, d) /\ run_vars' = after) ]_vars

\* The loops of gemini2.5_analysis_doc.py are through with requests made, an
\* answer stored and a failure logged, the last probe having failed.
C21_Witness ==
    /\ pc = "finalize"
    /\ variant = "A25"
    /\ duration_text = ""
    /\ request_count > 0
    /\ video_responses # << >>
    /\ error_log # << >>

\* The text of the runs, one after the other.
RunText(runs) == Flatten([k \in 1..Len(runs) |-> runs[k].text])

\* A text without its paired markers: the matches of the bold split lose their
\* two asterisks on either side, the matches of the italic split inside the
\* other parts lose their one, and whatever no match covers stays as it is.
WithoutItalicMarkers(part) ==
    LET q == re_split(part, MarkStar)
    IN Flatten([k \in 1..Len(q) |->
                   IF k % 2 = 0 THEN SubSeq(q[k], 2, Len(q[k]) - 1) ELSE q[k]])

WithoutPairedMarkers(t) ==
    LET q == re_split(t, MarkTwoStars)
    IN Flatten([k \in 1..Len(q) |->
                   IF k % 2 = 0 THEN SubSeq(q[k], 3, Len(q[k]) - 2)
                   ELSE WithoutItalicMarkers(q[k])])

\* C22: the runs format_text_with_bold emits, read one after the other, are
\* the input text with exactly the paired markers removed; an asterisk that
\* has no partner stays in the text.
C22_RunsKeepUnpairedMarkers ==
    paragraph.formatted => RunText(paragraph.runs) = WithoutPairedMarkers(paragraph.text)

\* C23: in the scripts with a save prompt the operator is asked about saving
\* at most once, and exactly once by the time a run that created the report
\* object has ended, however it ended; a report file is written if and only
\* if the operator answered yes, and never more than one.
C23_SavePromptOnce ==
    HasSavePrompt(variant) =>
        /\ prompts <= 1
        /\ saved <= 1
        /\ (pc = "done" /\ doc.created) => prompts = 1
        /\ save_doc # "unasked" => prompts = 1
        /\ saved = 1 <=> save_doc = "yes"

\* An interrupt ended the processing, the operator was asked and said no.
C23_Witness ==
    /\ HasSavePrompt(variant)
    /\ pc = "done"
    /\ raised = "SystemExit"
    /\ request_count > 0
    /\ prompts = 1
    /\ save_doc = "no"
    /\ saved = 0

\* The splitter raised on the answer and the iteration is over.
SplitRaisedAndClosed == parsed = "raw" /\ pc = "initial"

\* C24: when the splitter raises on an answer, the report receives the full
\* raw text of the answer, the uploaded file of the subject has been handed to
\* delete_file, and the loop stands at the next subject with no exception
\* under way.
C24_SplitFailureIsLocal ==
    SplitRaisedAndClosed =>
        /\ paragraph.formatted
        /\ RunText(paragraph.runs) = response_text
        /\ deletes[1] = 1
        /\ live = {}
        /\ idx = 2
        /\ raised = "none"

\* The handle of position k has been through generate_content: the call is
\* made with every handle upload_file returned, and with no other.
UploadSucceeded(k) == generates[k]

\* C25: every upload that succeeded is followed by exactly one delete_file on
\* its handle: never a second one, none on the handle of an earlier subject,
\* none when the upload of the subject under way failed. Per queue position
\* the delete calls never exceed the handles obtained, and match them once
\* the loop has moved on.
C25_OneDeletePerUpload ==
    \A k \in 1..Len(video_paths) :
        /\ deletes[k] <= UploadSucceeded(k)
        /\ (k < idx \/ pc = "done") => deletes[k] = UploadSucceeded(k)

\* C26: when a run ends on its own, after the last video or at the request
\* ceiling, nothing it uploaded is left without a delete: no video handle is
\* live, and no context PDF is (no statement hands context_resource to
\* delete_file, so a PDF that was uploaded is one that was left).
C26_NothingLeftUploaded ==
    (pc = "done" /\ raised = "none") => (live = {} /\ context_resource = None)

\* The generate_content calls issued so far, over all queue positions.
RECURSIVE SumTo(_, _)
SumTo(f, n) == IF n = 0 THEN 0 ELSE f[n] + SumTo(f, n - 1)

GenerateCalls == SumTo(generates, Len(video_paths))

\* C27: the request count written to the report ('Total API requests made')
\* is the number of generate_content calls issued during the run, initial
\* attempts and retries alike, whether they returned or raised; an attempt
\* whose upload failed is not in it.
C27_ReportCountsGenerateCalls ==
    (report.written /\ HasCeiling(variant)) => report.requests = GenerateCalls

\* C28: in every row of the processing-times table the 'Retry Attempts' value
\* is the number of retry requests made for the row's subject during the run
\* (its uploads after the first), also for a subject that was retried and
\* never obtained a usable answer. Stated for queues of distinct base names.
C28_RowsCountRetries ==
    (report.written /\ HasRetry(variant) /\ DistinctNames) =>
        \A i \in 1..Len(report.rows) :
            \A k \in 1..Len(video_paths) :
                video_paths[k].base = report.rows[i].base
                    => report.rows[i].retries = uploads[k] - 1

\* The initial pass went over position k: it uploaded the video, or found the
\* file missing.
Visited(k) == uploads[k] >= 1 \/ (~video_paths[k].exists /\ k <= idx)

\* C29: in a written report over a queue of distinct base names, every
\* subject the initial pass went over is in exactly one of 'Successful
\* Analyses' and 'Error Log': never in both, never in neither.
C29_ExactlyOneSection ==
    (report.written /\ HasRetry(variant) /\ DistinctNames) =>
        \A k \in 1..Len(video_paths) :
            Visited(k) =>
                (BaseOf(k) \in DOMAIN report.successes)
                    # (BaseOf(k) \in DOMAIN report.errors)

\* A written report with a subject that succeeded in a retry, one that never
\* did and one whose file was missing.
C29_Witness ==
    /\ report.written
    /\ HasRetry(variant)
    /\ DistinctNames
    /\ Len(video_paths) = 3
    /\ \E k \in 1..3 : usable[k] # << >> /\ uploads[k] > 1
    /\ \E k \in 1..3 : usable[k] = << >> /\ uploads[k] >= 1
    /\ \E k \in 1..3 : ~video_paths[k].exists

\* C30: outcomes are kept per queued path. A path whose answer was usable
\* has that answer, its latest, stored under its name whatever happens to
\* another path of the same base name, and a retry request goes to a path
\* that has no usable answer yet.
C30_OutcomesArePerPath ==
    /\ [](HasRetry(variant) =>
            \A k \in 1..Len(video_paths) :
                usable[k] # << >> =>
                    /\ BaseOf(k) \in DOMAIN video_responses
                    /\ video_responses[BaseOf(k)] = usable[k][Len(usable[k])])
    /\ [][(Attempts /\ attempt'.retry > 0) => usable[attempt'.pos] = << >>]_vars

====
